---- MODULE Spec2Model ----
(***************************************************************************)
(* A model of the command-line parser of package argparse (argparse.go).   *)
(*                                                                         *)
(* A token (a Go string) is a sequence of one-character strings, so that   *)
(* indexing, slicing and len() are what the code computes.  The empty Go   *)
(* string is << >>.  Go indices are 0-based: items[ptr] is items[ptr + 1]  *)
(* here.                                                                   *)
(***************************************************************************)
EXTENDS Integers, Sequences, FiniteSets, TLC

VARIABLES
    parser,       \* the ArgumentParser: descriptor lists and the struct type
    rawArgs,      \* ParseArgs' rawArgs parameter
    values0,      \* the caller's record at the call of ParseArgs
    values,       \* the caller's record (dest), field name -> value
    args,         \* ParseArgs' cursor over rawArgs
    posArgs,      \* ParseArgs' positional buffer
    posArgsList,  \* ParseArgs' cursor over posArgs (re-pass)
    posIdx,       \* number of positional descriptors already parsed
    pc,           \* "scan", "positional", "returned", "exited", "panicked"
    err,          \* the error ParseArgs returns
    exitStatus,   \* argument of exitFunc, -1 while it was not called
    printed,      \* what Usage/Help/Error wrote, in order
    hist,         \* dispatcher events, in order
    cur,          \* an argsList exercised on its own
    ret           \* the last operation applied to cur and what it returned

vars == << parser, rawArgs, values0, values, args, posArgs, posArgsList,
           posIdx, pc, err, exitStatus, printed, hist, cur, ret >>

parseVars == << parser, rawArgs, values0, values, args, posArgs,
                posArgsList, posIdx, pc, err, exitStatus, printed, hist >>

cursorVars == << cur, ret >>

(***************************************************************************)
(* Bounds                                                                  *)
(***************************************************************************)
\* longest token list handed to ParseArgs
MaxArgs == 3
\* longest token list handed to the parser of TestAppendConst
MaxFlagArgs == 6
\* longest token list under an argsList exercised on its own
MaxItems == 3
\* largest exact arity tried on an argsList exercised on its own
MaxNArgs == 3
\* number of operations applied to one argsList exercised on its own
MaxOps == 3
\* largest magnitude of the integers written and read back
MaxValue == 12
\* longest token list handed to the parser with two slice positionals
MaxPosArgs == 5

(***************************************************************************)
(* Arity constants                                                         *)
(***************************************************************************)
Optional == -1
OneOrMore == -2
ZeroOrMore == -3

(***************************************************************************)
(* Errors.  class is the dynamic Go type of the error value.               *)
(***************************************************************************)
NilErr == [class |-> "nil", kind |-> "nil"]

\* CommandLineError(s)
CommandLineError(kind) == [class |-> "CommandLineError", kind |-> kind]

\* fmt.Errorf(...)
PlainError(kind) == [class |-> "error", kind |-> kind]

\* the *strconv.NumError of ParseBool, ParseInt, ParseUint, ParseFloat
NumError(kind) == [class |-> "strconv.NumError", kind |-> kind]

NotEnoughArguments == CommandLineError("Not enough arguments")

(***************************************************************************)
(* argsList                                                                *)
(***************************************************************************)
NewArgsList(items) == [items |-> items, ptr |-> 0, pushed |-> << >>]

EOF(a) == a.ptr >= Len(a.items)

\* ok = FALSE: Next panicked with CommandLineError("Not enough arguments")
argsList_Next(a) ==
    IF a.pushed # << >>
    THEN [s |-> a.pushed, a |-> [a EXCEPT !.pushed = << >>], ok |-> TRUE]
    ELSE IF EOF(a)
         THEN [s |-> << >>, a |-> a, ok |-> FALSE]
         ELSE [s |-> a.items[a.ptr + 1],
               a |-> [a EXCEPT !.ptr = @ + 1], ok |-> TRUE]

PeekIgnoresPushed(a) ==
    IF EOF(a) THEN << >> ELSE a.items[a.ptr + 1]

Peek(a) ==
    IF a.pushed # << >>
    THEN a.pushed
    ELSE IF EOF(a) THEN << >> ELSE a.items[a.ptr + 1]

Push(a, s) == [a EXCEPT !.pushed = s]

(***************************************************************************)
(* readArgStrings.  The result is [strs, a, ok]; ok = FALSE when a call of *)
(* Next panicked, and then a is the cursor as the panic left it.           *)
(***************************************************************************)
\* the loop condition of the OneOrMore and ZeroOrMore cases, negated
StopsRunAtEndOnly(peek) == peek = << >>

StopsRun(peek) == peek = << >> \/ (Len(peek) >= 2 /\ peek[1] = "-")

RECURSIVE readWhile(_, _)
readWhile(a, acc) ==
    IF StopsRun(Peek(a))
    THEN [strs |-> acc, a |-> a, ok |-> TRUE]
    ELSE LET n == argsList_Next(a)
         IN  IF n.ok
             THEN readWhile(n.a, Append(acc, n.s))
             ELSE [strs |-> acc, a |-> n.a, ok |-> FALSE]

RECURSIVE readExactFrom(_, _, _, _)
readExactFrom(i, nArgs, a, acc) ==
    IF i < nArgs
    THEN LET n == argsList_Next(a)
         IN  IF n.ok
             THEN readExactFrom(i + 1, nArgs, n.a, Append(acc, n.s))
             ELSE [strs |-> acc, a |-> n.a, ok |-> FALSE]
    ELSE [strs |-> acc, a |-> a, ok |-> TRUE]

readExactOffByOne(nArgs, a) == readExactFrom(1, nArgs, a, << >>)

readExact(nArgs, a) == readExactFrom(0, nArgs, a, << >>)

readOptionalPeeksOnly(a) ==
    IF StopsRun(Peek(a))
    THEN [strs |-> << >>, a |-> a, ok |-> TRUE]
    ELSE [strs |-> << Peek(a) >>, a |-> a, ok |-> TRUE]

readOptional(a) ==
    IF StopsRun(Peek(a))
    THEN [strs |-> << >>, a |-> a, ok |-> TRUE]
    ELSE LET n == argsList_Next(a)
         IN  [strs |-> IF n.ok THEN << n.s >> ELSE << >>,
              a |-> n.a, ok |-> n.ok]

readOneOrMore(a) ==
    LET n == argsList_Next(a)
    IN  IF n.ok
        THEN readWhile(n.a, << n.s >>)
        ELSE [strs |-> << >>, a |-> n.a, ok |-> FALSE]

readZeroOrMore(a) == readWhile(a, << >>)

readArgStrings(nArgs, a) ==
    CASE nArgs = Optional   -> readOptional(a)
      [] nArgs = OneOrMore  -> readOneOrMore(a)
      [] nArgs = ZeroOrMore -> readZeroOrMore(a)
      [] OTHER              -> readExact(nArgs, a)

(***************************************************************************)
(* Kinds of destination fields (reflect.Kind of the field's type).         *)
(***************************************************************************)
IsSlice(kind) == kind \in {"slice_string", "slice_int", "slice_bool"}

ElemKind(kind) ==
    CASE kind = "slice_string" -> "string"
      [] kind = "slice_int"    -> "int"
      [] kind = "slice_bool"   -> "bool"
      [] OTHER                 -> "invalid"

\* reflect.New(elemType).Elem(): the zero value of a kind
ZeroOf(kind) ==
    CASE kind = "string" -> << >>
      [] kind = "int"    -> 0
      [] kind = "bool"   -> FALSE
      [] OTHER           -> << >>

(***************************************************************************)
(* strconv.ParseBool and strconv.ParseInt(s, 0, 0), as storeValue calls    *)
(* them.  The result is [ok, n]; n is what strconv returns beside the      *)
(* error.                                                                  *)
(***************************************************************************)
ParseBool(s) ==
    IF s \in { <<"1">>, <<"t">>, <<"T">>, <<"t","r","u","e">>,
               <<"T","R","U","E">>, <<"T","r","u","e">> }
    THEN [ok |-> TRUE, n |-> TRUE]
    ELSE IF s \in { <<"0">>, <<"f">>, <<"F">>, <<"f","a","l","s","e">>,
                    <<"F","A","L","S","E">>, <<"F","a","l","s","e">> }
         THEN [ok |-> TRUE, n |-> FALSE]
         ELSE [ok |-> FALSE, n |-> FALSE]

DigitVal(c) ==
    CASE c = "0" -> 0 [] c = "1" -> 1 [] c = "2" -> 2 [] c = "3" -> 3
      [] c = "4" -> 4 [] c = "5" -> 5 [] c = "6" -> 6 [] c = "7" -> 7
      [] c = "8" -> 8 [] c = "9" -> 9
      [] c \in {"a", "A"} -> 10 [] c \in {"b", "B"} -> 11
      [] c \in {"c", "C"} -> 12 [] c \in {"d", "D"} -> 13
      [] c \in {"e", "E"} -> 14 [] c \in {"f", "F"} -> 15
      [] OTHER -> 99

RECURSIVE DigitsValue(_, _, _)
DigitsValue(s, base, acc) ==
    IF s = << >> THEN acc
    ELSE DigitsValue(Tail(s), base, acc * base + DigitVal(Head(s)))

\* the magnitude of an unsigned literal in the given base
ParseDigits(s, base) ==
    IF s = << >> \/ \E i \in 1..Len(s) : DigitVal(s[i]) >= base
    THEN [ok |-> FALSE, n |-> 0]
    ELSE [ok |-> TRUE, n |-> DigitsValue(s, base, 0)]

\* base 0: the base is implied by the prefix, "0x" hex, "0" octal
ParseMagnitude(s) ==
    IF Len(s) >= 2 /\ s[1] = "0" /\ s[2] \in {"x", "X"}
    THEN ParseDigits(SubSeq(s, 3, Len(s)), 16)
    ELSE IF Len(s) >= 2 /\ s[1] = "0"
         THEN ParseDigits(Tail(s), 8)
         ELSE ParseDigits(s, 10)

\* bitSize 0 is the 64-bit int; a literal of the tokens tried here has far
\* fewer than 19 digits, so the range error of strconv cannot arise
\* the sign applied to the magnitude m = [ok, n]
SignedDropsSign(neg, m) ==
    IF ~m.ok THEN [ok |-> FALSE, n |-> 0]
    ELSE [ok |-> TRUE, n |-> m.n]

Signed(neg, m) ==
    IF ~m.ok THEN [ok |-> FALSE, n |-> 0]
    ELSE [ok |-> TRUE, n |-> IF neg THEN 0 - m.n ELSE m.n]

ParseInt(s) ==
    IF s = << >> THEN [ok |-> FALSE, n |-> 0]
    ELSE Signed(s[1] = "-",
                ParseMagnitude(IF s[1] \in {"+", "-"} THEN Tail(s) ELSE s))

(***************************************************************************)
(* storeValue(s, value).  The result is [err, val]: the error returned and *)
(* what the destination holds afterwards.                                  *)
(***************************************************************************)
\* value.SetBool(n) / value.SetInt(n) with the n and err of strconv
Converted(r) ==
    [err |-> IF r.ok THEN NilErr ELSE NumError("strconv syntax"),
     val |-> r.n]

storeValue(s, kind, old) ==
    CASE kind = "bool" -> Converted(ParseBool(s))
      [] kind = "int" -> Converted(ParseInt(s))
      [] kind = "string" -> [err |-> NilErr, val |-> s]
      [] OTHER ->
            [err |-> PlainError("Invalid kind for element destination"),
             val |-> old]

(***************************************************************************)
(* Destination handles and the results of an ActionFunc.                   *)
(*                                                                         *)
(* A handle is the reflect.Value an Action receives: valid = FALSE is the  *)
(* zero reflect.Value of a descriptor registered with Dest == "".          *)
(* A result is [res, err, val, status]:                                    *)
(*   res = "ok"     the Action returned nil                                *)
(*   res = "err"    the Action returned err                                *)
(*   res = "panic"  a run-time panic (reflect, slice bounds, index)        *)
(*   res = "exit"   exitFunc(status) was called                            *)
(***************************************************************************)
ZeroHandle == [valid |-> FALSE, kind |-> "invalid", val |-> << >>]

ActOk(val) == [res |-> "ok", err |-> NilErr, val |-> val, status |-> -1]

ActErr(e, val) == [res |-> "err", err |-> e, val |-> val, status |-> -1]

ActPanic(val) == [res |-> "panic", err |-> NilErr, val |-> val, status |-> -1]

ActExit(status, val) ==
    [res |-> "exit", err |-> NilErr, val |-> val, status |-> status]

\* the loop of Store over a slice destination: coerce every string into a
\* fresh slice; the destination is untouched until all succeeded
\* r is the [err, val] of storeValue for the element Head(strs)
RECURSIVE storeSlice(_, _, _)
RECURSIVE storeSliceElem(_, _, _, _)
storeSliceElem(r, strs, elemKind, acc) ==
    IF r.err # NilErr
    THEN [err |-> r.err, val |-> acc]
    ELSE storeSlice(Tail(strs), elemKind, Append(acc, r.val))

storeSlice(strs, elemKind, acc) ==
    IF strs = << >> THEN [err |-> NilErr, val |-> acc]
    ELSE storeSliceElem(storeValue(Head(strs), elemKind, ZeroOf(elemKind)),
                        strs, elemKind, acc)

\* return storeValue(args[0], value): the destination holds what
\* storeValue left in it
StoredScalar(r) ==
    IF r.err = NilErr THEN ActOk(r.val) ELSE ActErr(r.err, r.val)

\* value.Set(slice) after the loop, or the error of the loop
StoredSlicePartial(r, h) ==
    IF r.err = NilErr THEN ActOk(r.val) ELSE ActErr(r.err, r.val)

StoredSlice(r, h) ==
    IF r.err = NilErr THEN ActOk(r.val) ELSE ActErr(r.err, h.val)

StoreKeepsOnError(nArgs, strs, h) ==
    IF ~h.valid THEN ActPanic(h.val)
    ELSE IF nArgs = 1 \/ nArgs = Optional
    THEN IF nArgs = Optional /\ Len(strs) = 0
         THEN ActOk(h.val)
         ELSE IF Len(strs) = 0
              THEN ActPanic(h.val)
              ELSE IF storeValue(strs[1], h.kind, h.val).err # NilErr
                   THEN ActErr(storeValue(strs[1], h.kind, h.val).err, h.val)
                   ELSE StoredScalar(storeValue(strs[1], h.kind, h.val))
    ELSE IF ~IsSlice(h.kind)
    THEN ActErr(PlainError("Invalid kind for Store destination"), h.val)
    ELSE StoredSlice(storeSlice(strs, ElemKind(h.kind), << >>), h)

Store(nArgs, strs, h) ==
    IF ~h.valid THEN ActPanic(h.val)
    ELSE IF nArgs = 1 \/ nArgs = Optional
    THEN IF nArgs = Optional /\ Len(strs) = 0
         THEN ActOk(h.val)
         ELSE IF Len(strs) = 0
              THEN ActPanic(h.val)
              ELSE StoredScalar(storeValue(strs[1], h.kind, h.val))
    ELSE IF ~IsSlice(h.kind)
    THEN ActErr(PlainError("Invalid kind for Store destination"), h.val)
    ELSE StoredSlice(storeSlice(strs, ElemKind(h.kind), << >>), h)

\* a constant is [k, v]: the kind of the value given to StoreConst or
\* AppendConst, and the value
StoreConst(c, h) ==
    IF ~h.valid \/ c.k # h.kind THEN ActPanic(h.val)
    ELSE ActOk(c.v)

AppendConstPrepend(c, h) ==
    IF ~IsSlice(h.kind)
    THEN ActErr(PlainError("Invalid kind for Append destination"), h.val)
    ELSE IF c.k # ElemKind(h.kind) THEN ActPanic(h.val)
         ELSE ActOk(<< c.v >> \o h.val)

AppendConst(c, h) ==
    IF ~IsSlice(h.kind)
    THEN ActErr(PlainError("Invalid kind for Append destination"), h.val)
    ELSE IF c.k # ElemKind(h.kind) THEN ActPanic(h.val)
         ELSE ActOk(Append(h.val, c.v))

\* the loop of Append: every coerced value is appended at once
RECURSIVE appendEach(_, _, _)
RECURSIVE appendElem(_, _, _, _)
appendElem(r, strs, elemKind, acc) ==
    IF r.err # NilErr
    THEN [err |-> r.err, val |-> acc]
    ELSE appendEach(Tail(strs), elemKind, Append(acc, r.val))

appendEach(strs, elemKind, acc) ==
    IF strs = << >> THEN [err |-> NilErr, val |-> acc]
    ELSE appendElem(storeValue(Head(strs), elemKind, ZeroOf(elemKind)),
                    strs, elemKind, acc)

AppendActionAtomic(strs, h) ==
    IF ~h.valid THEN ActPanic(h.val)
    ELSE IF ~IsSlice(h.kind)
    THEN ActErr(PlainError("Invalid kind for Append destination"), h.val)
    ELSE StoredSlice(appendEach(strs, ElemKind(h.kind), h.val), h)

AppendAction(strs, h) ==
    IF ~h.valid THEN ActPanic(h.val)
    ELSE IF ~IsSlice(h.kind)
    THEN ActErr(PlainError("Invalid kind for Append destination"), h.val)
    ELSE StoredScalar(appendEach(strs, ElemKind(h.kind), h.val))

\* helpCallback of New
helpCallback(h) == ActExit(0, h.val)

\* an action without the Choice wrapper; act is [fn, c, sub, choices]
BuiltinAction(fn, c, nArgs, strs, h) ==
    CASE fn = "Store"       -> Store(nArgs, strs, h)
      [] fn = "Append"      -> AppendAction(strs, h)
      [] fn = "StoreConst"  -> StoreConst(c, h)
      [] fn = "AppendConst" -> AppendConst(c, h)
      [] fn = "help"        -> helpCallback(h)

ChoiceChecksFirst(sub, c, choices, nArgs, strs, h) ==
    IF strs # << >> /\ \A j \in 1..Len(choices) : choices[j] # strs[1]
    THEN ActErr(CommandLineError("Expected one of"), h.val)
    ELSE BuiltinAction(sub, c, nArgs, strs, h)

Choice(sub, c, choices, nArgs, strs, h) ==
    IF \E i \in 1..Len(strs) : \A j \in 1..Len(choices) : choices[j] # strs[i]
    THEN ActErr(CommandLineError("Expected one of"), h.val)
    ELSE BuiltinAction(sub, c, nArgs, strs, h)

\* arg.Action(nArgs, strs, dest)
Action(act, nArgs, strs, h) ==
    IF act.fn = "Choice"
    THEN Choice(act.sub, act.c, act.choices, nArgs, strs, h)
    ELSE BuiltinAction(act.fn, act.c, nArgs, strs, h)

(***************************************************************************)
(* Descriptors and the parse of one descriptor.                            *)
(*                                                                         *)
(* An environment e is what a parse function reads and writes besides its  *)
(* result: [a, values, hist, printed] (the cursor, the caller's record,    *)
(* the events so far, the output so far).  An outcome is the environment   *)
(* it leaves with                                                          *)
(*   res = "ok"        returned nil                                        *)
(*   res = "err"       returned err                                        *)
(*   res = "cmdpanic"  panicked with the CommandLineError err              *)
(*   res = "panic"     panicked with a run-time error                      *)
(*   res = "exit"      called exitFunc(status), which does not return      *)
(***************************************************************************)
Event(ev, a, b) == [ev |-> ev, a |-> a, b |-> b]

\* the event of a parse function returning, or panicking with, the error
\* error
Failure(error) == Event("fail", << error.class >>, error.kind)

Outcome(res, error, status, e) ==
    [res |-> res, err |-> error, status |-> status, a |-> e.a,
     values |-> e.values, hist |-> e.hist, printed |-> e.printed]

EnvOf(o) ==
    [a |-> o.a, values |-> o.values, hist |-> o.hist, printed |-> o.printed]

\* destStruct.FieldByName(arg.Dest), or the zero Value when Dest == ""
Handle(dest, kinds, vals) ==
    IF dest = "" THEN ZeroHandle
    ELSE [valid |-> TRUE, kind |-> kinds[dest], val |-> vals[dest]]

\* the call arg.Action(nArgs, strs, dest) and what it leaves behind
\* r is the result of the Action
actionDone(r, arg, strs, e) ==
    Outcome(r.res, r.err, r.status,
        [e EXCEPT
           !.values = IF arg.Dest = "" THEN @
                      ELSE [@ EXCEPT ![arg.Dest] = r.val],
           !.hist = IF r.res = "err"
                    THEN @ \o << Event("action", strs, arg.id), Failure(r.err) >>
                    ELSE Append(@, Event("action", strs, arg.id)),
           !.printed = IF arg.Action.fn = "help"
                       THEN Append(@, "help") ELSE @])

invokeAction(arg, kinds, strs, e) ==
    actionDone(Action(arg.Action, arg.NArgs, strs,
                      Handle(arg.Dest, kinds, e.values)),
               arg, strs, e)

\* arg.Action(arg.NArgs, readArgStrings(arg.NArgs, args), dest): r is what
\* readArgStrings gave; when it panicked the Action is not called
actionOnRead(r, arg, kinds, e) ==
    IF ~r.ok
    THEN Outcome("cmdpanic", NotEnoughArguments, -1,
             [e EXCEPT !.a = r.a,
                       !.hist = Append(@, Failure(NotEnoughArguments))])
    ELSE invokeAction(arg, kinds, r.strs, [e EXCEPT !.a = r.a])

OptionalArgument_parse(arg, kinds, e) ==
    IF arg.Dest # "" /\ arg.Dest \notin DOMAIN kinds
    THEN Outcome("err", PlainError("Invalid destination struct field"), -1,
             [e EXCEPT !.hist = Append(@,
                 Failure(PlainError("Invalid destination struct field")))])
    ELSE IF arg.NArgs = 0
    THEN invokeAction(arg, kinds, << >>, e)
    ELSE actionOnRead(readArgStrings(arg.NArgs, e.a), arg, kinds, e)

PositionalArgument_parse(arg, kinds, e) ==
    IF arg.Dest # "" /\ arg.Dest \notin DOMAIN kinds
    THEN Outcome("err", PlainError("Invalid destination struct field"), -1,
             [e EXCEPT !.hist = Append(@,
                 Failure(PlainError("Invalid destination struct field")))])
    ELSE IF arg.NArgs = 0
    THEN invokeAction(arg, kinds, << >>, e)
    ELSE actionOnRead(readArgStrings(arg.NArgs, e.a), arg, kinds, e)

(***************************************************************************)
(* ArgumentParser.Error: usage, the message, exitFunc(2).  exitFunc is     *)
(* os.Exit, or the panicking no_exit of the tests: neither returns.        *)
(***************************************************************************)
ParserError(msg, e) ==
    Outcome("exit", CommandLineError(msg), 2,
            [e EXCEPT !.printed = @ \o << "usage", msg >>])

(***************************************************************************)
(* Option lookup                                                           *)
(***************************************************************************)
\* the index of the first descriptor the range loop matches, 0 if none
FirstShortLast(opts, name) ==
    IF \E i \in 1..Len(opts) : opts[i].ShortName = name
    THEN CHOOSE i \in 1..Len(opts) :
            /\ opts[i].ShortName = name
            /\ \A j \in (i + 1)..Len(opts) : opts[j].ShortName # name
    ELSE 0

FirstShort(opts, name) ==
    IF \E i \in 1..Len(opts) : opts[i].ShortName = name
    THEN CHOOSE i \in 1..Len(opts) :
            /\ opts[i].ShortName = name
            /\ \A j \in 1..(i - 1) : opts[j].ShortName # name
    ELSE 0

FirstLong(opts, name) ==
    IF \E i \in 1..Len(opts) : opts[i].LongName = name
    THEN CHOOSE i \in 1..Len(opts) :
            /\ opts[i].LongName = name
            /\ \A j \in 1..(i - 1) : opts[j].LongName # name
    ELSE 0

parseShortOption(name, p, e) ==
    LET i == FirstShort(p.OptionalArguments, name)
    IN  IF i # 0
        THEN OptionalArgument_parse(p.OptionalArguments[i], p.kinds,
                 [e EXCEPT !.hist = Append(@, Event("lookup", << name >>, "found"))])
        ELSE ParserError("No such option",
                 [e EXCEPT !.hist = Append(@, Event("lookup", << name >>, "unknown"))])

\* o is the outcome of parseShortOption for the character Head(s)
RECURSIVE parseShortOptions(_, _, _)
RECURSIVE shortOptionDone(_, _, _)
shortOptionDone(o, s, p) ==
    IF o.res # "ok" \/ o.err # NilErr THEN o
    ELSE parseShortOptions(Tail(s), p, EnvOf(o))

parseShortOptions(s, p, e) ==
    IF s = << >> THEN Outcome("ok", NilErr, -1, e)
    ELSE shortOptionDone(parseShortOption(Head(s), p, e), s, p)

\* strings.IndexRune(name, '='), -1 if there is none
IndexRune(name, c) ==
    IF \E i \in 1..Len(name) : name[i] = c
    THEN (CHOOSE i \in 1..Len(name) :
             name[i] = c /\ \A j \in 1..(i - 1) : name[j] # c) - 1
    ELSE -1

\* the Go slice expression s[lo:]; ok = FALSE is the run-time panic
\* "slice bounds out of range"
SliceFrom(s, lo) ==
    IF lo > Len(s) THEN [ok |-> FALSE, s |-> << >>]
    ELSE [ok |-> TRUE, s |-> SubSeq(s, lo + 1, Len(s))]

parseLongOption(name, p, e) ==
    LET pos   == IndexRune(name, "=")
        name2 == IF pos >= 0 THEN SubSeq(name, 1, pos) ELSE name
        rhs   == SliceFrom(name2, pos + 1)
        e2    == IF pos >= 0 THEN [e EXCEPT !.a = Push(@, rhs.s)] ELSE e
        i     == FirstLong(p.OptionalArguments, name2)
    IN  IF pos >= 0 /\ ~rhs.ok
        THEN Outcome("panic", NilErr, -1, e)
        ELSE IF i # 0
        THEN OptionalArgument_parse(p.OptionalArguments[i], p.kinds,
                 [e2 EXCEPT !.hist = Append(@, Event("lookup", name2, "found"))])
        ELSE ParserError("No such option",
                 [e2 EXCEPT !.hist = Append(@, Event("lookup", name2, "unknown"))])

(***************************************************************************)
(* ParseArgs.  A parse state is the record st of ParseArgs' locals, the    *)
(* caller's record and what was observed outside:                          *)
(*   [values, args, posArgs, posArgsList, posIdx, pc, err, exitStatus,     *)
(*    printed, hist]                                                       *)
(* pc = "scan"        in the loop over rawArgs (lines 284-313)             *)
(* pc = "positional"  in the loop over PositionalArguments (315-322)       *)
(* pc = "returned"    ParseArgs returned err                               *)
(* pc = "exited"      exitFunc(exitStatus) was called                      *)
(* pc = "panicked"    a run-time panic left ParseArgs (re-panicked by the  *)
(*                    deferred function)                                   *)
(***************************************************************************)
DashDash == << "-", "-" >>

StartState(vals, raw) ==
    [values |-> vals, args |-> NewArgsList(raw), posArgs |-> << >>,
     posArgsList |-> NewArgsList(<< >>), posIdx |-> 0, pc |-> "scan",
     err |-> NilErr, exitStatus |-> -1, printed |-> << >>, hist |-> << >>]

ScanEnv(st) ==
    [a |-> st.args, values |-> st.values, hist |-> st.hist,
     printed |-> st.printed]

PosEnvRewound(st) ==
    [a |-> NewArgsList(st.posArgs), values |-> st.values, hist |-> st.hist,
     printed |-> st.printed]

PosEnv(st) ==
    [a |-> st.posArgsList, values |-> st.values, hist |-> st.hist,
     printed |-> st.printed]

\* argStr == "--"
IsEndOfOptionsNever(argStr) == FALSE

IsEndOfOptions(argStr) == argStr = DashDash

\* the inner loop of the "--" case: every remaining token, in order
drainNothing(a, acc) == [a |-> a, posArgs |-> acc]

RECURSIVE drain(_, _)
drain(a, acc) ==
    IF EOF(a) THEN [a |-> a, posArgs |-> acc]
    ELSE LET n == argsList_Next(a) IN drain(n.a, Append(acc, n.s))

\* what ParseArgs does with the outcome o of parsing one option token or
\* one positional descriptor; inScan tells the loop
afterOutcomeContinues(st, o, inScan) ==
    LET st2 == [st EXCEPT !.values = o.values, !.hist = o.hist,
                          !.printed = o.printed]
        st3 == IF inScan THEN [st2 EXCEPT !.args = o.a]
               ELSE [st2 EXCEPT !.posArgsList = o.a]
    IN  CASE o.res \in {"ok", "err"} ->
                IF inScan THEN st3 ELSE [st3 EXCEPT !.posIdx = @ + 1]
          [] o.res = "cmdpanic" ->
                [st3 EXCEPT !.pc = "returned", !.err = o.err]
          [] o.res = "panic" -> [st3 EXCEPT !.pc = "panicked"]
          [] o.res = "exit" ->
                [st3 EXCEPT !.pc = "exited", !.exitStatus = o.status]

afterOutcome(st, o, inScan) ==
    LET st2 == [st EXCEPT !.values = o.values, !.hist = o.hist,
                          !.printed = o.printed]
        st3 == IF inScan THEN [st2 EXCEPT !.args = o.a]
               ELSE [st2 EXCEPT !.posArgsList = o.a]
    IN  CASE o.res = "ok" ->
                IF inScan THEN st3 ELSE [st3 EXCEPT !.posIdx = @ + 1]
          [] o.res = "err" ->
                IF inScan /\ o.err.class = "CommandLineError"
                THEN [st3 EXCEPT !.pc = "exited", !.exitStatus = 2,
                                 !.printed = @ \o << "usage", o.err.kind >>]
                ELSE [st3 EXCEPT !.pc = "returned", !.err = o.err]
          [] o.res = "cmdpanic" ->
                [st3 EXCEPT !.pc = "returned", !.err = o.err]
          [] o.res = "panic" -> [st3 EXCEPT !.pc = "panicked"]
          [] o.res = "exit" ->
                [st3 EXCEPT !.pc = "exited", !.exitStatus = o.status]

\* one iteration of the loop over rawArgs; st.pc = "scan", not at EOF
ScanStep(p, st) ==
    LET n      == argsList_Next(st.args)
        argStr == n.s
        e      == [ScanEnv(st) EXCEPT !.a = n.a]
    IN  IF IsEndOfOptions(argStr)
        THEN LET d == drain(n.a, st.posArgs)
             IN  [st EXCEPT !.args = d.a, !.posArgs = d.posArgs,
                            !.posArgsList = NewArgsList(d.posArgs),
                            !.pc = "positional",
                            !.hist = Append(@, Event("dispatch", argStr, "end"))]
        ELSE IF Len(argStr) > 1 /\ argStr[1] = "-"
        THEN IF argStr[2] = "-"
             THEN afterOutcome(st,
                      parseLongOption(SubSeq(argStr, 3, Len(argStr)), p,
                          [e EXCEPT !.hist = Append(@, Event("dispatch", argStr, "long"))]),
                      TRUE)
             ELSE afterOutcome(st,
                      parseShortOptions(SubSeq(argStr, 2, Len(argStr)), p,
                          [e EXCEPT !.hist = Append(@, Event("dispatch", argStr, "short"))]),
                      TRUE)
        ELSE [st EXCEPT !.args = n.a, !.posArgs = Append(@, argStr),
                        !.hist = Append(@, Event("dispatch", argStr, "positional"))]

\* the loop over rawArgs ends: posArgsList := &argsList{posArgs, 0, ""}
ScanEndRescans(st) == [st EXCEPT !.args = NewArgsList(st.args.items)]

ScanEnd(st) ==
    [st EXCEPT !.posArgsList = NewArgsList(st.posArgs), !.pc = "positional"]

\* one iteration of the loop over PositionalArguments
PosStep(p, st) ==
    afterOutcome(st,
        PositionalArgument_parse(p.PositionalArguments[st.posIdx + 1],
                                 p.kinds, PosEnv(st)),
        FALSE)

\* return nil
ReturnNil(st) == [st EXCEPT !.pc = "returned", !.err = NilErr]

Terminal(st) == st.pc \in {"returned", "exited", "panicked"}

StepOf(p, st) ==
    CASE st.pc = "scan" /\ ~EOF(st.args) -> ScanStep(p, st)
      [] st.pc = "scan" /\ EOF(st.args)  -> ScanEnd(st)
      [] st.pc = "positional" /\ st.posIdx < Len(p.PositionalArguments) ->
            PosStep(p, st)
      [] st.pc = "positional" /\ st.posIdx >= Len(p.PositionalArguments) ->
            ReturnNil(st)
      [] OTHER -> st

\* ParseArgs run to its end from st
RECURSIVE RunFrom(_, _)
RunFrom(p, st) == IF Terminal(st) THEN st ELSE RunFrom(p, StepOf(p, st))

\* p.ParseArgs(&vals, raw): the state it ends in
ParseArgs(p, vals, raw) == RunFrom(p, StartState(vals, raw))

(***************************************************************************)
(* Registration: New, Option, Argument.  A descriptor's metavar is unique  *)
(* in the parsers below and serves as its identity (field id).  kinds is   *)
(* the struct type of the record the parser is used with.                  *)
(***************************************************************************)
NoConst == [k |-> "none", v |-> << >>]

Act(fn) == [fn |-> fn, c |-> NoConst, sub |-> "none", choices |-> << >>]

ActConst(fn, k, v) ==
    [fn |-> fn, c |-> [k |-> k, v |-> v], sub |-> "none", choices |-> << >>]

ActChoice(sub, choices) ==
    [fn |-> "Choice", c |-> sub.c, sub |-> sub.fn, choices |-> choices]

Option(p, shortName, longName, dest, nArgs, action, metavar) ==
    [p EXCEPT !.OptionalArguments = Append(@,
        [id |-> metavar, ShortName |-> shortName, LongName |-> longName,
         Dest |-> dest, NArgs |-> nArgs, Action |-> action])]

Argument(p, dest, nArgs, action, metavar) ==
    [p EXCEPT !.PositionalArguments = Append(@,
        [id |-> metavar, Dest |-> dest, NArgs |-> nArgs, Action |-> action])]

New(description, kinds) ==
    Option([name |-> description, kinds |-> kinds,
            OptionalArguments |-> << >>, PositionalArguments |-> << >>],
           "h", <<"h","e","l","p">>, "", 0, Act("help"), "HELP")

(***************************************************************************)
(* The parsers checked and the inputs tried on each.                       *)
(***************************************************************************)
SeqsUpTo(S, n) == UNION { [1..k -> S] : k \in 0..n }

pouet == << "p" >>
zed == << "z" >>
aflag == << "a", "f", "l", "a", "g" >>
bflag == << "b", "f", "l", "a", "g" >>
cflag == << "c", "f", "l", "a", "g" >>

truc == << "-", "-", "t", "r", "u", "c" >>

\* the parser of TestParse
TestParseParser ==
    Option(New("pouet", [By |-> "string"]),
           "b", <<"b","y">>, "By", 1, Act("Store"), "BY")

\* the values V tried in --by=V, -b V, --by V
JoinedValues == { pouet, <<"-","t">>, <<"=">> }

Joined(V) == <<"-","-","b","y","=">> \o V

TestParseVocab ==
    { <<"-","b">>, <<"-","-","b","y">>, DashDash, truc,
      <<"-","t">>, truc \o <<"=","p">>, <<"-","h">>, <<"-","b","t">>,
      << >> }
    \cup JoinedValues \cup { Joined(V) : V \in JoinedValues }

\* the parser of TestAppendConst
TestAppendConstParser ==
    Option(Option(Option(New("appendconsttest", [Params |-> "slice_string"]),
        "a", <<"a","a">>, "Params", 0, ActConst("AppendConst", "string", aflag), "A"),
        "b", <<"b","b">>, "Params", 0, ActConst("AppendConst", "string", bflag), "B"),
        "c", <<"c","c">>, "Params", 0, ActConst("AppendConst", "string", cflag), "C")

TestAppendConstVocab ==
    { <<"-","a">>, <<"-","b">>, <<"-","c">>, <<"-","c","b">>,
      <<"-","-","a","a">> }

\* a parser with options of several arities and two positionals
FilesParser ==
    Argument(Argument(Option(Option(Option(
        New("files", [Name |-> "string", Files |-> "slice_string",
                      Num |-> "int", Flag |-> "bool"]),
        "n", <<"n","u","m">>, "Num", 1, Act("Store"), "NUM"),
        "v", <<"v">>, "Flag", 0, ActConst("StoreConst", "bool", TRUE), "V"),
        "o", <<"o","u","t">>, "Name", Optional, Act("Store"), "OUT"),
        "Name", 1, Act("Store"), "NAME"),
        "Files", ZeroOrMore, Act("Store"), "FILES")

FilesVocab ==
    { <<"x">>, <<"5">>, <<"-","n">>, <<"-","v">>, <<"-","o">>, DashDash,
      <<"-","5">>, << >> }

\* a parser whose descriptors carry no destination (Dest == "")
NoDestParser ==
    Argument(Option(Option(Option(Option(Option(Option(
        New("nodest", [By |-> "string"]),
        "s", <<"s">>, "", 1, Act("Store"), "S"),
        "p", <<"p">>, "", 1, Act("Append"), "P"),
        "k", <<"k">>, "", 0, ActConst("StoreConst", "string", pouet), "K"),
        "q", <<"q">>, "", 0, ActConst("AppendConst", "string", pouet), "Q"),
        "e", <<"e">>, "", 1, ActChoice(Act("Store"), << pouet >>), "E"),
        "o", <<"o">>, "", Optional, Act("Store"), "O"),
        "", Optional, Act("Store"), "ARG")

NoDestVocab ==
    { <<"-","s">>, <<"-","p">>, <<"-","k">>, <<"-","q">>, <<"-","e">>,
      <<"-","o">>, pouet }

\* a parser registered against fields the record does not have or cannot
\* take: Missing is no field, By is no slice, Odd is of a struct kind
BadParser ==
    Argument(Option(Option(Option(
        New("bad", [By |-> "string", Odd |-> "struct"]),
        "m", <<"m">>, "Missing", 1, Act("Store"), "MISSING"),
        "w", <<"w">>, "By", 2, Act("Store"), "WIDE"),
        "u", <<"u">>, "Odd", 1, Act("Store"), "ODD"),
        "Missing", 1, Act("Store"), "PMISSING")

BadVocab == { <<"-","m">>, <<"-","w">>, <<"-","u">>, pouet }

\* parsers with one arity-1 Store descriptor on a field V of the given
\* kind, as an option -b/--by and as a positional
RoundTripKinds == { "bool", "int", "string" }

RoundTripOption(kind) ==
    Option(New("roundtrip", [V |-> kind]),
           "b", <<"b","y">>, "V", 1, Act("Store"), "OPT")

RoundTripPositional(kind) ==
    Argument(New("roundtrip", [V |-> kind]), "V", 1, Act("Store"), "POS")

\* the values written and read back
RoundTripValues(kind) ==
    CASE kind = "bool"   -> BOOLEAN
      [] kind = "int"    -> (0 - MaxValue)..MaxValue
      [] kind = "string" ->
            { << >>, pouet, <<"5">>, <<"-">>, <<"-","t">>, DashDash, truc,
              <<"t","r","u","e">> }

\* the records V is parsed into
RoundTripRecords(kind) ==
    CASE kind = "bool"   -> { [V |-> FALSE], [V |-> TRUE] }
      [] kind = "int"    -> { [V |-> 0], [V |-> 7] }
      [] kind = "string" -> { [V |-> << >>], [V |-> zed] }

\* strconv.FormatBool, strconv.Itoa; a string is its own canonical form
FormatBool(b) ==
    IF b THEN <<"t","r","u","e">> ELSE <<"f","a","l","s","e">>

DigitChar(d) ==
    CASE d = 0 -> "0" [] d = 1 -> "1" [] d = 2 -> "2" [] d = 3 -> "3"
      [] d = 4 -> "4" [] d = 5 -> "5" [] d = 6 -> "6" [] d = 7 -> "7"
      [] d = 8 -> "8" [] d = 9 -> "9"

RECURSIVE FormatUint(_)
FormatUint(n) ==
    IF n < 10 THEN << DigitChar(n) >>
    ELSE Append(FormatUint(n \div 10), DigitChar(n % 10))

FormatInt(n) ==
    IF n < 0 THEN << "-" >> \o FormatUint(0 - n) ELSE FormatUint(n)

Canonical(kind, v) ==
    CASE kind = "bool"   -> FormatBool(v)
      [] kind = "int"    -> FormatInt(v)
      [] kind = "string" -> v

xtok == << "x" >>
ytok == << "y" >>

\* a parser with an arity-1 option and two positionals, of arity 2 and
\* OneOrMore
PairsParser ==
    Argument(Argument(Option(
        New("pairs", [Pair |-> "slice_string", Rest |-> "slice_string",
                      Num |-> "string"]),
        "n", <<"n","u","m">>, "Num", 1, Act("Store"), "N"),
        "Pair", 2, Act("Store"), "PAIR"),
        "Rest", OneOrMore, Act("Store"), "REST")

PairsVocab == { xtok, ytok, <<"-","n">>, DashDash }

one == << "1" >>
two == << "2" >>

\* a parser with Store descriptors of several arities on slices of int
NumsParser ==
    Argument(Option(Option(
        New("nums", [Nums |-> "slice_int", More |-> "slice_int"]),
        "m", <<"m">>, "Nums", 2, Act("Store"), "M"),
        "s", <<"s">>, "Nums", ZeroOrMore, Act("Store"), "S"),
        "More", ZeroOrMore, Act("Store"), "MORE")

NumsVocab == { one, two, xtok, <<"-","m">>, <<"-","s">> }

\* a parser whose descriptors wrap Store and StoreConst in Choice
ChoiceParser ==
    Argument(Option(Option(Option(
        New("choice", [Mode |-> "string", Tags |-> "slice_string"]),
        "c", <<"c">>, "Mode", 1, ActChoice(Act("Store"), << pouet, zed >>), "C"),
        "o", <<"o">>, "Mode", Optional, ActChoice(Act("Store"), << pouet >>), "O"),
        "k", <<"k">>, "Mode", 0,
             ActChoice(ActConst("StoreConst", "string", xtok), << pouet >>), "K"),
        "Tags", ZeroOrMore, ActChoice(Act("Store"), << pouet, zed >>), "TAGS")

ChoiceVocab ==
    { pouet, zed, xtok, <<"-","c">>, <<"-","o">>, <<"-","k">> }

\* a parser for clusters of short options: two options of arity 1, a flag,
\* and a second descriptor registered under the short name a
ClusterParser ==
    Option(Option(Option(Option(
        New("cluster", [A |-> "string", B |-> "string", F |-> "bool"]),
        "a", <<"a","a">>, "A", 1, Act("Store"), "A"),
        "b", <<"b","b">>, "B", 1, Act("Store"), "B"),
        "v", <<"v","v">>, "F", 0, ActConst("StoreConst", "bool", TRUE), "V"),
        "a", <<"a","2">>, "B", 1, Act("Store"), "A2")

ClusterVocab ==
    { <<"-","a","b">>, <<"-","b","a">>, <<"-","a","v","b">>,
      <<"-","a","t","b">>, <<"-","a">>, xtok, ytok }

\* a parser with a positional of Optional arity before one of ZeroOrMore
OptPosParser ==
    Argument(Argument(
        New("optpos", [Name |-> "string", Rest |-> "slice_string"]),
        "Name", Optional, Act("Store"), "NAME"),
        "Rest", ZeroOrMore, Act("Store"), "REST")

OptPosVocab == { xtok, <<"-","t">>, DashDash }

five == << "5" >>

\* a parser with Store descriptors of arity 1 and Optional on an int and
\* on a bool field
ScalarParser ==
    Argument(Option(Option(Option(Option(
        New("scalar", [N |-> "int", B |-> "bool"]),
        "n", <<"n">>, "N", 1, Act("Store"), "N"),
        "b", <<"b">>, "B", 1, Act("Store"), "B"),
        "o", <<"o">>, "N", Optional, Act("Store"), "ON"),
        "p", <<"p">>, "B", Optional, Act("Store"), "OB"),
        "B", Optional, Act("Store"), "PB")

ScalarVocab ==
    { <<"-","n">>, <<"-","b">>, <<"-","o">>, <<"-","p">>, xtok, five,
      <<"t","r","u","e">> }

\* a parser with Append descriptors of several arities on a slice of int
AppendParser ==
    Argument(Option(Option(
        New("append", [Nums |-> "slice_int"]),
        "a", <<"a">>, "Nums", OneOrMore, Act("Append"), "A"),
        "t", <<"t">>, "Nums", 2, Act("Append"), "T"),
        "Nums", ZeroOrMore, Act("Append"), "P")

AppendVocab == { one, two, xtok, <<"-","a">>, <<"-","t">> }

\* a configuration is a parser, the token lists handed to its ParseArgs
\* and the records they are parsed into
Configs ==
    { [parser |-> TestParseParser,
       inputs |-> SeqsUpTo(TestParseVocab, MaxArgs),
       records |-> { [By |-> << >>], [By |-> zed] }],
      [parser |-> TestAppendConstParser,
       inputs |-> SeqsUpTo(TestAppendConstVocab, MaxFlagArgs),
       records |-> { [Params |-> << >>], [Params |-> << zed >>] }],
      [parser |-> FilesParser,
       inputs |-> SeqsUpTo(FilesVocab, MaxArgs),
       records |-> { [Name |-> << >>, Files |-> << >>, Num |-> 0, Flag |-> FALSE],
                     [Name |-> zed, Files |-> << zed >>, Num |-> 7, Flag |-> TRUE] }],
      [parser |-> NoDestParser,
       inputs |-> SeqsUpTo(NoDestVocab, MaxArgs),
       records |-> { [By |-> zed] }],
      [parser |-> BadParser,
       inputs |-> SeqsUpTo(BadVocab, MaxArgs),
       records |-> { [By |-> zed, Odd |-> << >>] }] }
    \cup { [parser |-> PairsParser,
            inputs |-> SeqsUpTo(PairsVocab, MaxPosArgs),
            records |-> { [Pair |-> << zed >>, Rest |-> << >>, Num |-> zed] }] }
    \cup { [parser |-> NumsParser,
            inputs |-> SeqsUpTo(NumsVocab, MaxArgs),
            records |-> { [Nums |-> << >>, More |-> << >>],
                          [Nums |-> << 7 >>, More |-> << 7, 7 >>] }] }
    \cup { [parser |-> ChoiceParser,
            inputs |-> SeqsUpTo(ChoiceVocab, MaxArgs),
            records |-> { [Mode |-> << >>, Tags |-> << >>],
                          [Mode |-> ytok, Tags |-> << ytok >>] }] }
    \cup { [parser |-> ClusterParser,
            inputs |-> SeqsUpTo(ClusterVocab, MaxArgs),
            records |-> { [A |-> zed, B |-> zed, F |-> FALSE] }] }
    \cup { [parser |-> OptPosParser,
            inputs |-> SeqsUpTo(OptPosVocab, MaxArgs),
            records |-> { [Name |-> zed, Rest |-> << zed >>] }] }
    \cup { [parser |-> ScalarParser,
            inputs |-> SeqsUpTo(ScalarVocab, MaxArgs),
            records |-> { [N |-> 0, B |-> FALSE], [N |-> 7, B |-> TRUE] }] }
    \cup { [parser |-> AppendParser,
            inputs |-> SeqsUpTo(AppendVocab, MaxArgs),
            records |-> { [Nums |-> << >>], [Nums |-> << 7 >>] }] }
    \cup { [parser |-> RoundTripOption(k),
            inputs |-> { << <<"-","b">>, Canonical(k, v) >> :
                            v \in RoundTripValues(k) },
            records |-> RoundTripRecords(k)] : k \in RoundTripKinds }
    \cup { [parser |-> RoundTripPositional(k),
            inputs |-> { << Canonical(k, v) >> : v \in RoundTripValues(k) },
            records |-> RoundTripRecords(k)] : k \in RoundTripKinds }

(***************************************************************************)
(* The parse as a state machine: a call p.ParseArgs(&values, rawArgs).     *)
(***************************************************************************)
State ==
    [values |-> values, args |-> args, posArgs |-> posArgs,
     posArgsList |-> posArgsList, posIdx |-> posIdx, pc |-> pc, err |-> err,
     exitStatus |-> exitStatus, printed |-> printed, hist |-> hist]

Becomes(st) ==
    /\ values' = st.values
    /\ args' = st.args
    /\ posArgs' = st.posArgs
    /\ posArgsList' = st.posArgsList
    /\ posIdx' = st.posIdx
    /\ pc' = st.pc
    /\ err' = st.err
    /\ exitStatus' = st.exitStatus
    /\ printed' = st.printed
    /\ hist' = st.hist
    /\ UNCHANGED << parser, rawArgs, values0, cur, ret >>

NoCursor == NewArgsList(<< >>)

\* ret is [op, nArgs, tok, pre, strs, ok, count, hasPush, pushTok]: the
\* operation, its argument (nArgs of readArgStrings, tok of Push), the
\* argsList before it, the strings it returned, whether it returned
\* (ok = FALSE: it panicked with CommandLineError("Not enough arguments")),
\* the number of operations so far, and whether a Push was called with no
\* Next or readArgStrings since, with the token of the latest such Push
NoRet ==
    [op |-> "none", nArgs |-> 0, tok |-> << >>, pre |-> NoCursor,
     strs |-> << >>, ok |-> TRUE, count |-> 0,
     hasPush |-> FALSE, pushTok |-> << >>]

Init ==
    /\ \E c \in Configs :
          /\ parser = c.parser
          /\ rawArgs \in c.inputs
          /\ values0 \in c.records
    /\ values = values0
    /\ args = NewArgsList(rawArgs)
    /\ posArgs = << >>
    /\ posArgsList = NewArgsList(<< >>)
    /\ posIdx = 0
    /\ pc = "scan"
    /\ err = NilErr
    /\ exitStatus = -1
    /\ printed = << >>
    /\ hist = << >>
    /\ cur = NoCursor
    /\ ret = NoRet

IsOptionToken(argStr) == Len(argStr) > 1 /\ argStr[1] = "-"

\* the token "--" is read
ScanEndOfOptions ==
    /\ pc = "scan" /\ ~EOF(args)
    /\ IsEndOfOptions(Peek(args))
    /\ Becomes(ScanStep(parser, State))

\* a token "--name" or "--name=value" is read
ScanLongOption ==
    /\ pc = "scan" /\ ~EOF(args)
    /\ ~IsEndOfOptions(Peek(args))
    /\ IsOptionToken(Peek(args)) /\ Peek(args)[2] = "-"
    /\ Becomes(ScanStep(parser, State))

\* a token "-abc" is read
ScanShortOptions ==
    /\ pc = "scan" /\ ~EOF(args)
    /\ ~IsEndOfOptions(Peek(args))
    /\ IsOptionToken(Peek(args)) /\ Peek(args)[2] # "-"
    /\ Becomes(ScanStep(parser, State))

\* any other token is read
ScanPositional ==
    /\ pc = "scan" /\ ~EOF(args)
    /\ ~IsEndOfOptions(Peek(args))
    /\ ~IsOptionToken(Peek(args))
    /\ Becomes(ScanStep(parser, State))

\* the loop over rawArgs finds no token left
ScanDone ==
    /\ pc = "scan" /\ EOF(args)
    /\ Becomes(ScanEnd(State))

\* the next positional descriptor is parsed
ParsePositional ==
    /\ pc = "positional" /\ posIdx < Len(parser.PositionalArguments)
    /\ Becomes(PosStep(parser, State))

\* every positional descriptor was parsed
Return ==
    /\ pc = "positional" /\ posIdx >= Len(parser.PositionalArguments)
    /\ Becomes(ReturnNil(State))

Next ==
    \/ ScanEndOfOptions
    \/ ScanLongOption
    \/ ScanShortOptions
    \/ ScanPositional
    \/ ScanDone
    \/ ParsePositional
    \/ Return

Spec == Init /\ [][Next]_vars

(***************************************************************************)
(* An argsList on its own: Push, Next, Peek and readArgStrings applied to  *)
(* a cursor created as ParseArgs creates it, &argsList{items, 0, ""}.      *)
(***************************************************************************)
CursorVocab == { << >>, <<"-">>, <<"-","x">>, DashDash, <<"f">> }

Arities == { Optional, OneOrMore, ZeroOrMore } \cup (0..MaxNArgs)

IdleParser == New("idle", [By |-> "string"])

CursorInit ==
    /\ \E items \in SeqsUpTo(CursorVocab, MaxItems) : cur = NewArgsList(items)
    /\ ret = NoRet
    /\ parser = IdleParser
    /\ rawArgs = << >>
    /\ values0 = [By |-> << >>]
    /\ values = values0
    /\ args = NoCursor
    /\ posArgs = << >>
    /\ posArgsList = NoCursor
    /\ posIdx = 0
    /\ pc = "idle"
    /\ err = NilErr
    /\ exitStatus = -1
    /\ printed = << >>
    /\ hist = << >>

DoPush ==
    /\ ret.count < MaxOps
    /\ \E t \in CursorVocab :
          /\ cur' = Push(cur, t)
          /\ ret' = [op |-> "push", nArgs |-> 0, tok |-> t, pre |-> cur,
                     strs |-> << >>, ok |-> TRUE, count |-> ret.count + 1,
                     hasPush |-> TRUE, pushTok |-> t]
    /\ UNCHANGED parseVars

DoNext ==
    /\ ret.count < MaxOps
    /\ LET n == argsList_Next(cur)
       IN  /\ cur' = n.a
           /\ ret' = [op |-> "next", nArgs |-> 0, tok |-> << >>, pre |-> cur,
                      strs |-> IF n.ok THEN << n.s >> ELSE << >>,
                      ok |-> n.ok, count |-> ret.count + 1,
                      hasPush |-> FALSE, pushTok |-> << >>]
    /\ UNCHANGED parseVars

DoPeek ==
    /\ ret.count < MaxOps
    /\ cur' = cur
    /\ ret' = [op |-> "peek", nArgs |-> 0, tok |-> << >>, pre |-> cur,
               strs |-> << Peek(cur) >>, ok |-> TRUE,
               count |-> ret.count + 1,
               hasPush |-> ret.hasPush, pushTok |-> ret.pushTok]
    /\ UNCHANGED parseVars

DoReadArgStrings ==
    /\ ret.count < MaxOps
    /\ \E nArgs \in Arities :
          LET r == readArgStrings(nArgs, cur)
          IN  /\ cur' = r.a
              /\ ret' = [op |-> "read", nArgs |-> nArgs, tok |-> << >>,
                         pre |-> cur,
                         strs |-> IF r.ok THEN r.strs ELSE << >>,
                         ok |-> r.ok, count |-> ret.count + 1,
                         hasPush |-> FALSE, pushTok |-> << >>]
    /\ UNCHANGED parseVars

CursorNext ==
    \/ DoPush
    \/ DoNext
    \/ DoPeek
    \/ DoReadArgStrings

SpecCursor == CursorInit /\ [][CursorNext]_vars

(***************************************************************************)
(* Properties of readArgStrings                                            *)
(***************************************************************************)
\* the tokens an argsList still has to give, the pushed-back one first
Stream(a) ==
    (IF a.pushed # << >> THEN << a.pushed >> ELSE << >>)
        \o SubSeq(a.items, a.ptr + 1, Len(a.items))

\* "looks like an option": length >= 2 and first character '-'
LooksLikeOption(t) == Len(t) >= 2 /\ t[1] = "-"

\* the length of the longest prefix of s without an option-looking token
RECURSIVE RunLength(_)
RunLength(s) ==
    IF s = << >> \/ LooksLikeOption(Head(s)) THEN 0
    ELSE 1 + RunLength(Tail(s))

Drop(s, n) == SubSeq(s, n + 1, Len(s))

Take(s, n) == SubSeq(s, 1, n)

\* C6: readArgStrings with an exact arity N returns the next N tokens in
\* order, whatever they look like, and advances the cursor by N when N
\* tokens are available; otherwise it fails with "Not enough arguments"
\* and returns no list.
C6_ExactArity ==
    (ret.op = "read" /\ ret.nArgs >= 0) =>
        LET before == Stream(ret.pre)
            N      == ret.nArgs
        IN  IF Len(before) >= N
            THEN /\ ret.ok
                 /\ ret.strs = Take(before, N)
                 /\ Stream(cur) = Drop(before, N)
                 /\ ret.pre.pushed = << >> => cur.ptr = ret.pre.ptr + N
                 /\ cur.items = ret.pre.items
            ELSE /\ ~ret.ok
                 /\ ret.strs = << >>

C6_Witness ==
    /\ ret.op = "read" /\ ret.nArgs = 2 /\ ret.ok
    /\ ret.strs = << DashDash, <<"-","x">> >>
    /\ cur.ptr = ret.pre.ptr + 2

\* C7: readArgStrings with Optional arity never fails; it consumes nothing
\* and returns the empty list exactly when no token remains or the next
\* token looks like an option, and otherwise consumes and returns exactly
\* the next token.
C7_Optional ==
    (ret.op = "read" /\ ret.nArgs = Optional) =>
        LET before == Stream(ret.pre)
        IN  /\ ret.ok
            /\ IF before = << >> \/ LooksLikeOption(Head(before))
               THEN ret.strs = << >> /\ Stream(cur) = before
               ELSE ret.strs = << Head(before) >> /\ Stream(cur) = Tail(before)

\* C8: readArgStrings with OneOrMore arity fails with "Not enough
\* arguments" on an empty stream; otherwise it consumes the first token
\* whatever it looks like and then every further token up to the first
\* one that looks like an option or the end of input, and stops nowhere
\* else.
C8_OneOrMore ==
    (ret.op = "read" /\ ret.nArgs = OneOrMore) =>
        LET before == Stream(ret.pre)
        IN  IF before = << >>
            THEN ~ret.ok
            ELSE LET n == 1 + RunLength(Tail(before))
                 IN  /\ ret.ok
                     /\ ret.strs = Take(before, n)
                     /\ Stream(cur) = Drop(before, n)

\* C9: readArgStrings with ZeroOrMore arity never fails and returns the
\* longest prefix of the remaining tokens in which no token looks like an
\* option, empty-string tokens included; the cursor ends right after it.
C9_ZeroOrMore ==
    (ret.op = "read" /\ ret.nArgs = ZeroOrMore) =>
        LET before == Stream(ret.pre)
            n      == RunLength(before)
        IN  /\ ret.ok
            /\ ret.strs = Take(before, n)
            /\ Stream(cur) = Drop(before, n)

(***************************************************************************)
(* Properties of ParseArgs                                                 *)
(***************************************************************************)
Succeeded == pc = "returned" /\ err = NilErr

\* the parse ended in the unknown-option failure: usage and "No such
\* option" printed, exitFunc(2) called
UnknownOptionFailure ==
    /\ pc = "exited" /\ exitStatus = 2
    /\ Len(printed) >= 2
    /\ printed[Len(printed)] = "No such option"
    /\ printed[Len(printed) - 1] = "usage"

UnknownLookups == { i \in 1..Len(hist) : hist[i].ev = "lookup" /\ hist[i].b = "unknown" }

\* C1: once the dispatcher reads "--", every remaining token goes to the
\* positional buffer in its original order and none is dispatched as an
\* option; with the parser of TestParse, ["--", "--truc"] and ["--", "-t"]
\* succeed and never reach the unknown-option path.
C1_EndOfOptions ==
    /\ [][ (pc = "scan" /\ ~EOF(args) /\ Peek(args) = DashDash) =>
              /\ posArgs' = posArgs \o Drop(rawArgs, args.ptr + 1)
              /\ EOF(args')
              /\ pc' = "positional"
              /\ hist' = Append(hist, Event("dispatch", DashDash, "end"))
              /\ values' = values /\ exitStatus' = exitStatus ]_vars
    /\ [](( /\ parser = TestParseParser
            /\ rawArgs \in { << DashDash, truc >>, << DashDash, <<"-","t">> >> })
           => /\ pc \notin {"exited", "panicked"}
              /\ err = NilErr
              /\ UnknownLookups = {})

C1_Witness ==
    /\ parser = TestParseParser
    /\ rawArgs = << DashDash, truc >>
    /\ Succeeded
    /\ posArgs = << truc >>

\* the name of a long-option token: between the two dashes and the first '='
LongNameOf(tok) ==
    LET name == Drop(tok, 2)
        pos  == IndexRune(name, "=")
    IN  IF pos >= 0 THEN Take(name, pos) ELSE name

IsUnknownLong(tok) ==
    /\ Len(tok) > 2 /\ tok[1] = "-" /\ tok[2] = "-"
    /\ \A i \in 1..Len(parser.OptionalArguments) :
          parser.OptionalArguments[i].LongName # LongNameOf(tok)

Dispatches == { i \in 1..Len(hist) : hist[i].ev = "dispatch" }

PositionalDispatches ==
    { i \in Dispatches : hist[i].b \in {"positional", "end"} }

\* C2: when the dispatcher meets a long option whose name matches no
\* descriptor, or a character of a short-option cluster that matches no
\* descriptor, the parse ends there in the UnknownOption failure: it does
\* not succeed, the token is not added to the positional buffer and no
\* later token is dispatched.
C2_UnknownOption ==
    /\ \A i \in UnknownLookups : i = Len(hist) /\ UnknownOptionFailure
    /\ \A i \in Dispatches :
          (hist[i].b = "long" /\ IsUnknownLong(hist[i].a)) =>
              /\ UnknownOptionFailure
              /\ \A j \in Dispatches : j <= i
              /\ posArgs = [k \in 1..Len(posArgs) |->
                               hist[CHOOSE d \in PositionalDispatches :
                                   Cardinality({ x \in PositionalDispatches : x <= d }) = k].a]

\* what a caller observes of a finished parse
Observed(st) ==
    [pc |-> st.pc, err |-> st.err, exitStatus |-> st.exitStatus,
     values |-> st.values]

\* C3: with the option -b/--by (arity 1, Store), ParseArgs on ["--by=V"]
\* ends with the same result and the same destination contents as on
\* ["-b", V] and on ["--by", V], from equal destination records.
C3_JoinedEquivalent ==
    \A V \in JoinedValues :
        (parser = TestParseParser /\ rawArgs = << Joined(V) >> /\ Terminal(State)) =>
            /\ Observed(State) =
                  Observed(ParseArgs(parser, values0, << <<"-","b">>, V >>))
            /\ Observed(State) =
                  Observed(ParseArgs(parser, values0, << <<"-","-","b","y">>, V >>))

\* the constant an occurrence of an option of TestAppendConst appends
ConstOfShort(c) ==
    CASE c = "a" -> aflag [] c = "b" -> bflag [] c = "c" -> cflag

RECURSIVE ConstsOfCluster(_)
ConstsOfCluster(s) ==
    IF s = << >> THEN << >>
    ELSE << ConstOfShort(Head(s)) >> \o ConstsOfCluster(Tail(s))

\* one constant per option occurrence of the token list, in order
RECURSIVE ExpectedConsts(_)
ExpectedConsts(raw) ==
    IF raw = << >> THEN << >>
    ELSE LET tok == Head(raw)
         IN  (IF tok[2] = "-" THEN << ConstOfShort(tok[3]) >>
              ELSE ConstsOfCluster(Tail(tok)))
             \o ExpectedConsts(Tail(raw))

\* C4: after a successful parse of occurrences of arity-0 AppendConst
\* options bound to one slice destination, the destination is its prior
\* contents followed by one constant per occurrence, in the order of the
\* occurrences in the token list.
C4_AppendOrder ==
    (parser = TestAppendConstParser /\ pc = "returned") =>
        /\ err = NilErr
        /\ values.Params = values0.Params \o ExpectedConsts(rawArgs)

C4_Witness ==
    /\ parser = TestAppendConstParser
    /\ rawArgs = << <<"-","a">>, <<"-","b">>, <<"-","c">>,
                    <<"-","c">>, <<"-","b">>, <<"-","a">> >>
    /\ values0.Params = << >>
    /\ Succeeded
    /\ values.Params = << aflag, bflag, cflag, cflag, bflag, aflag >>

\* C5 as stated: on success nothing remains unconsumed, neither in the raw
\* token list nor in the positional buffer.
C5_NothingRemains ==
    Succeeded =>
        /\ EOF(args) /\ args.pushed = << >>
        /\ EOF(posArgsList) /\ posArgsList.pushed = << >>

OptionIds == { parser.OptionalArguments[i].id : i \in 1..Len(parser.OptionalArguments) }

RECURSIVE OptionArgCount(_)
OptionArgCount(h) ==
    IF h = << >> THEN 0
    ELSE (IF Head(h).ev = "action" /\ Head(h).b \in OptionIds
          THEN Len(Head(h).a) ELSE 0) + OptionArgCount(Tail(h))

\* C5 amended: on success every token of the raw list was read from the
\* raw cursor, as an option token, as an argument of an option, as the
\* "--" marker or into the positional buffer, and no pushback is pending;
\* tokens of the positional buffer that no positional descriptor consumed
\* may remain.
C5_RawConsumed ==
    Succeeded =>
        /\ EOF(args) /\ args.pushed = << >>
        /\ posArgsList.items = posArgs
        /\ Len(rawArgs) = Len(posArgs) + OptionArgCount(hist)
               + Cardinality({ i \in Dispatches : hist[i].b # "positional" })

C5_Witness ==
    /\ Succeeded
    /\ rawArgs = << DashDash, truc >>
    /\ ~EOF(posArgsList)
    /\ EOF(args)

\* the descriptor an action event names
DescriptorOf(id) ==
    LET all == parser.OptionalArguments \o parser.PositionalArguments
    IN  all[CHOOSE i \in 1..Len(all) : all[i].id = id]

\* C10: invoking a built-in Action for a descriptor registered with an
\* empty destination name returns success without panicking and changes
\* no field of the caller's record.
C10_AbsentHandle ==
    /\ (hist # << >> /\ hist[Len(hist)].ev = "action"
          /\ DescriptorOf(hist[Len(hist)].b).Dest = ""
          /\ DescriptorOf(hist[Len(hist)].b).Action.fn # "help")
       => (pc # "panicked" /\ err = NilErr)
    /\ parser = NoDestParser => values = values0

(***************************************************************************)
(* Properties of the argsList                                              *)
(***************************************************************************)
\* one more operation was applied to cur
CursorOp == ret'.count = ret.count + 1

\* C11: for every token t, the empty string included, after Push(t) the
\* next Next returns t, leaves the read position where it was and clears
\* the slot; a Peek before it returns t and clears nothing; a second Push
\* before any Next overwrites the first; a pending pushback is returned
\* before any token of the list.
C11_Pushback ==
    [][ CursorOp =>
          /\ (ret'.op = "next" /\ ret.hasPush) =>
                /\ ret'.ok
                /\ ret'.strs = << ret.pushTok >>
                /\ cur'.ptr = cur.ptr
                /\ cur'.pushed = << >>
          /\ (ret'.op = "peek" /\ ret.hasPush) =>
                /\ ret'.strs = << ret.pushTok >>
                /\ cur' = cur
          /\ ret'.op = "push" =>
                /\ cur'.pushed = ret'.tok
                /\ ret'.pushTok = ret'.tok
                /\ cur'.ptr = cur.ptr ]_vars

\* C11 for the tokens other than the empty string
C11_NonEmptyPushback ==
    [][ (CursorOp /\ ret.hasPush /\ ret.pushTok # << >>) =>
          /\ ret'.op = "next" =>
                /\ ret'.ok
                /\ ret'.strs = << ret.pushTok >>
                /\ cur'.ptr = cur.ptr
                /\ cur'.pushed = << >>
          /\ ret'.op = "peek" =>
                /\ ret'.strs = << ret.pushTok >>
                /\ cur' = cur ]_vars

\* a token is available: the pushback slot is occupied or the read position
\* is before the end of the list
Available(a) == a.pushed # << >> \/ a.ptr < Len(a.items)

\* Peek and Next without the sentence on the empty-string sentinel
PeekNextAgree ==
    /\ [](ret.op = "peek" => (ret.ok /\ cur = ret.pre))
    /\ []((ret.op = "peek" /\ ~Available(ret.pre)) => ret.strs = << << >> >>)
    /\ [][ (CursorOp /\ ret.op = "peek" /\ ret'.op = "next" /\ Available(cur))
              => (ret'.ok /\ ret'.strs = ret.strs) ]_vars
    /\ [](ret.op = "next" =>
            (~ret.ok <=> (ret.pre.pushed = << >>
                            /\ ret.pre.ptr >= Len(ret.pre.items))))

\* C12 as stated: Peek never fails and never changes the cursor; when a
\* token is available it returns the token the following Next returns; it
\* returns the empty string only when no token remains and no pushback is
\* set; Next fails with "Not enough arguments" exactly when no pushback is
\* set and the read position is at the end.
C12_PeekNext ==
    /\ PeekNextAgree
    /\ []((ret.op = "peek" /\ ret.strs = << << >> >>) => ~Available(ret.pre))

\* C12 amended: as C12, but Peek returns the empty string when no token
\* remains and no pushback is set and also when the token the following
\* Next returns is the empty string, and in no other case.
C12_PeekNextAmended ==
    /\ PeekNextAgree
    /\ []((ret.op = "peek" /\ ret.strs = << << >> >>) =>
            \/ ~Available(ret.pre)
            \/ /\ ret.pre.pushed = << >>
               /\ ret.pre.items[ret.pre.ptr + 1] = << >>)

C12_Witness ==
    /\ ret.op = "peek"
    /\ ret.pre.pushed = << "f" >>
    /\ ~EOF(ret.pre)
    /\ ret.strs = << << "f" >> >>
    /\ cur = ret.pre

(***************************************************************************)
(* Failures of a parse                                                     *)
(***************************************************************************)
\* the events of a descriptor failing: lookups that found no descriptor,
\* and errors returned or panicked by a descriptor's parse
FailureEvents ==
    { i \in 1..Len(hist) :
        \/ hist[i].ev = "fail"
        \/ hist[i].ev = "lookup" /\ hist[i].b = "unknown" }

KindOfFailure(i) ==
    IF hist[i].ev = "fail" THEN hist[i].b ELSE "No such option"

ClassOfFailure(i) ==
    IF hist[i].ev = "fail" THEN hist[i].a[1] ELSE "CommandLineError"

\* the messages Error printed
Messages == { i \in 1..Len(printed) : printed[i] \notin {"usage", "help"} }

\* C13: a failure of any kind (not enough arguments, unknown option, a
\* value rejected, a destination that cannot be written) ends the parse
\* where it occurs, in the option pass and in the positional re-pass: no
\* event follows it (no token dispatched, no Action invoked), no step is
\* taken after it, and exactly one error reaches the caller, returned by
\* ParseArgs or printed before exitFunc(2).
C13_AbortOnFailure ==
    /\ [](\A i \in FailureEvents :
            /\ i = Len(hist)
            /\ Terminal(State)
            /\ \/ /\ pc = "returned"
                  /\ err = [class |-> ClassOfFailure(i), kind |-> KindOfFailure(i)]
                  /\ Messages = {}
               \/ /\ pc = "exited" /\ exitStatus = 2
                  /\ err = NilErr
                  /\ Cardinality(Messages) = 1
                  /\ printed[Len(printed)] = KindOfFailure(i))
    /\ [][~Terminal(State)]_vars

C13_Witness ==
    /\ parser = FilesParser
    /\ rawArgs = << <<"-","n">>, <<"x">>, <<"-","v">> >>
    /\ pc = "returned" /\ err = NumError("strconv syntax")
    /\ hist[Len(hist)] = Failure(NumError("strconv syntax"))
    /\ args.ptr = 2
    /\ values.Flag = values0.Flag

\* the failures of a value: a string strconv rejects, a string Choice
\* rejects
ValueFailureKinds == { "strconv syntax", "Expected one of" }

\* the failures of the caller's setup
ConfigurationKinds ==
    { "Invalid destination struct field",
      "Invalid kind for element destination",
      "Invalid kind for Store destination",
      "Invalid kind for Append destination" }

\* C14: a coercion failure and a Choice rejection are both reported in the
\* class of the user-input errors, the class of "Not enough arguments"
\* (CommandLineError); a missing destination field and an unsupported kind
\* are reported in another class; no coercion failure shares the class of
\* a configuration error.
C14_ErrorClasses ==
    \A i \in FailureEvents :
        /\ KindOfFailure(i) \in ValueFailureKinds \cup { "Not enough arguments" }
              => ClassOfFailure(i) = NotEnoughArguments.class
        /\ KindOfFailure(i) \in ConfigurationKinds
              => ClassOfFailure(i) # NotEnoughArguments.class
        /\ KindOfFailure(i) \in ValueFailureKinds
              => ClassOfFailure(i) # PlainError("").class

\* the failures of a bad command line
BadCommandLineKinds ==
    ValueFailureKinds \cup { "Not enough arguments", "No such option" }

HelpEvents == { i \in 1..Len(hist) : hist[i].ev = "action" /\ hist[i].b = "HELP" }

\* C15: every parse that fails because of a bad command line (not enough
\* arguments, unknown option, value rejected by coercion or by Choice), in
\* the option pass or in the positional re-pass, prints the usage and
\* calls exitFunc(2); the help option calls exitFunc(0) at its token,
\* before any later token; a successful parse never calls exitFunc.
C15_ExitProtocol ==
    /\ \A i \in FailureEvents :
          KindOfFailure(i) \in BadCommandLineKinds =>
              /\ pc = "exited" /\ exitStatus = 2
              /\ \E j \in 1..Len(printed) : printed[j] = "usage"
    /\ \A i \in HelpEvents :
          i = Len(hist) /\ pc = "exited" /\ exitStatus = 0
    /\ Succeeded => exitStatus = -1

(***************************************************************************)
(* Store                                                                   *)
(***************************************************************************)
\* C16 as stated: for every value v of a bool, int or string kind, the
\* canonical string of v given as the single token of an arity-1 Store
\* descriptor, as the argument of an option (-b s) or as a positional (s),
\* leaves the destination equal to v.
C16_RoundTrip ==
    \A k \in RoundTripKinds : \A v \in RoundTripValues(k) :
        ( /\ Terminal(State)
          /\ \/ /\ parser = RoundTripOption(k)
                /\ rawArgs = << <<"-","b">>, Canonical(k, v) >>
             \/ /\ parser = RoundTripPositional(k)
                /\ rawArgs = << Canonical(k, v) >> )
        => (Succeeded /\ values.V = v)

\* C16 amended: as an option argument every canonical string reads back
\* as v; as a positional it reads back as v unless it looks like an option
\* (first character '-', length >= 2: a negative integer, "-t", "--"), and
\* then it is dispatched as an option token, the parse does not succeed
\* and the destination keeps its prior value.
C16_RoundTripUnlessOptionLike ==
    \A k \in RoundTripKinds : \A v \in RoundTripValues(k) :
        /\ ( /\ Terminal(State)
             /\ parser = RoundTripOption(k)
             /\ rawArgs = << <<"-","b">>, Canonical(k, v) >> )
           => (Succeeded /\ values.V = v)
        /\ ( /\ Terminal(State)
             /\ parser = RoundTripPositional(k)
             /\ rawArgs = << Canonical(k, v) >> )
           => IF LooksLikeOption(Canonical(k, v))
              THEN ~Succeeded /\ values.V = values0.V
              ELSE Succeeded /\ values.V = v

C16_Witness ==
    /\ parser = RoundTripOption("int")
    /\ rawArgs = << <<"-","b">>, <<"-","1","0">> >>
    /\ values0.V = 7
    /\ Succeeded
    /\ values.V = 0 - 10

(***************************************************************************)
(* The positional re-pass                                                  *)
(***************************************************************************)
PositionalIds ==
    { parser.PositionalArguments[i].id : i \in 1..Len(parser.PositionalArguments) }

IsPositionalDispatch(e) == e.ev = "dispatch" /\ e.b = "positional"

IsPositionalAction(e) == e.ev = "action" /\ e.b \in PositionalIds

\* the strings of a sequence of events, in order
RECURSIVE StringsOf(_)
StringsOf(evs) ==
    IF evs = << >> THEN << >> ELSE Head(evs).a \o StringsOf(Tail(evs))

TokensOf(evs) == [i \in 1..Len(evs) |-> evs[i].a]

\* the tokens "--" sent to the positional buffer: the last ones of rawArgs
Drained(n) == SubSeq(rawArgs, Len(rawArgs) - n + 1, Len(rawArgs))

\* the number of tokens a positional descriptor cannot do without
Needs(nArgs) ==
    IF nArgs >= 0 THEN nArgs ELSE IF nArgs = OneOrMore THEN 1 ELSE 0

NewEvents == SubSeq(hist', Len(hist) + 1, Len(hist'))

IsAction(e) == e.ev = "action"

IsFailure(e) == e.ev = "fail"

\* the step invoked exactly one Action
OneAction == Len(SelectSeq(NewEvents, IsAction)) = 1

\* that Action's event: the strings it was given and its descriptor
TheAction == SelectSeq(NewEvents, IsAction)[1]

\* the error the step's Action returned, NilErr if none
ReturnedError ==
    IF SelectSeq(NewEvents, IsFailure) = << >> THEN NilErr
    ELSE [class |-> SelectSeq(NewEvents, IsFailure)[1].a[1],
          kind  |-> SelectSeq(NewEvents, IsFailure)[1].b]

\* storeValue applied to a fresh element of the kind
Coerced(str, kind) == storeValue(str, kind, ZeroOf(kind))

\* C18: Store with an arity other than 1 and Optional into a slice field:
\* if the coercion of any string fails, Store returns the error and the
\* field keeps its prior contents; if all succeed the field is replaced
\* by the coerced values in token order.
C18_StoreSliceAtomic ==
    [][ ( /\ OneAction
          /\ DescriptorOf(TheAction.b).Action.fn = "Store"
          /\ DescriptorOf(TheAction.b).NArgs \notin {1, Optional}
          /\ DescriptorOf(TheAction.b).Dest \in DOMAIN parser.kinds
          /\ IsSlice(parser.kinds[DescriptorOf(TheAction.b).Dest]) )
        => LET d    == DescriptorOf(TheAction.b)
               strs == TheAction.a
               elem == ElemKind(parser.kinds[d.Dest])
           IN  IF \E i \in 1..Len(strs) : Coerced(strs[i], elem).err # NilErr
               THEN /\ values' = values
                    /\ ReturnedError # NilErr
                    /\ \E i \in 1..Len(strs) :
                          ReturnedError = Coerced(strs[i], elem).err
                    /\ Terminal(State')
               ELSE /\ ReturnedError = NilErr
                    /\ values'[d.Dest] =
                          [i \in 1..Len(strs) |-> Coerced(strs[i], elem).val]
                    /\ \A f \in DOMAIN values \ {d.Dest} :
                          values'[f] = values[f] ]_vars

C18_Witness ==
    /\ parser = NumsParser
    /\ rawArgs = << <<"-","m">>, one, xtok >>
    /\ values0.Nums = << 7 >>
    /\ pc = "returned" /\ err = NumError("strconv syntax")
    /\ values = values0

\* what the Action act leaves behind when invoked with strs for the
\* descriptor d: the record, the error returned, whether it panicked
Invoked(fn, c, d, strs) ==
    LET r == BuiltinAction(fn, c, d.NArgs, strs,
                           Handle(d.Dest, parser.kinds, values))
    IN  [values   |-> IF d.Dest = "" THEN values
                      ELSE [values EXCEPT ![d.Dest] = r.val],
         err      |-> IF r.res = "err" THEN r.err ELSE NilErr,
         panicked |-> r.res = "panic"]

\* C19: Choice invokes its subAction only when every consumed string is
\* in the allowed set, and then with the same arity, strings and
\* destination; otherwise it fails with the CommandLineError naming the
\* allowed set and the destination is unchanged (the subAction was not
\* invoked); with no consumed string it always delegates.
C19_Choice ==
    [][ ( /\ OneAction
          /\ DescriptorOf(TheAction.b).Action.fn = "Choice" )
        => LET d       == DescriptorOf(TheAction.b)
               strs    == TheAction.a
               allowed == { d.Action.choices[j] : j \in 1..Len(d.Action.choices) }
           IN  IF \E i \in 1..Len(strs) : strs[i] \notin allowed
               THEN /\ values' = values
                    /\ ReturnedError = CommandLineError("Expected one of")
                    /\ Terminal(State')
               ELSE /\ values' = Invoked(d.Action.sub, d.Action.c, d, strs).values
                    /\ ReturnedError = Invoked(d.Action.sub, d.Action.c, d, strs).err
                    /\ Invoked(d.Action.sub, d.Action.c, d, strs).panicked
                          <=> pc' = "panicked" ]_vars

C19_Witness ==
    /\ parser = ChoiceParser
    /\ rawArgs = << <<"-","k">>, <<"-","c">>, xtok >>
    /\ values0.Mode = ytok
    /\ pc = "exited" /\ exitStatus = 2
    /\ printed = << "usage", "Expected one of" >>
    /\ values.Mode = xtok

(***************************************************************************)
(* Clusters of short options                                               *)
(***************************************************************************)
ShortDispatches == { i \in Dispatches : hist[i].b = "short" }

\* the events of the token dispatched at event i: up to the next dispatch
EventsOfToken(i) ==
    SubSeq(hist, i + 1,
           IF \E j \in Dispatches : j > i
           THEN (CHOOSE j \in Dispatches :
                    j > i /\ \A k \in Dispatches : k > i => j <= k) - 1
           ELSE Len(hist))

IsLookup(e) == e.ev = "lookup"

IsFoundLookup(e) == e.ev = "lookup" /\ e.b = "found"

IsOptionAction(e) == e.ev = "action" /\ e.b \in OptionIds

\* the position in rawArgs of the token dispatched at event i
RawPosition(i) ==
    Cardinality({ j \in Dispatches : j < i })
        + OptionArgCount(SubSeq(hist, 1, i - 1)) + 1

\* the first descriptor registered under the short name c
FirstRegistered(c) ==
    LET S == { j \in 1..Len(parser.OptionalArguments) :
                 parser.OptionalArguments[j].ShortName = c }
    IN  parser.OptionalArguments[CHOOSE j \in S : \A k \in S : j <= k]

\* C20: a cluster -c1..ck is processed as k options from left to right,
\* each against the first descriptor registered under its short name;
\* the options take their arguments from the tokens that follow the
\* cluster, in cluster order (-ab followed by x y, a and b of arity 1:
\* a gets x and b gets y); the first unknown character ends the parse
\* in the unknown-option failure and no later character is processed.
C20_ShortCluster ==
    /\ \A i \in ShortDispatches :
          LET chars   == Tail(hist[i].a)
              lookups == SelectSeq(EventsOfToken(i), IsLookup)
              found   == SelectSeq(EventsOfToken(i), IsFoundLookup)
              acts    == SelectSeq(EventsOfToken(i), IsOptionAction)
              used    == StringsOf(acts)
          IN  /\ Len(lookups) <= Len(chars)
              /\ \A k \in 1..Len(lookups) : lookups[k].a = << chars[k] >>
              /\ Len(lookups) < Len(chars) =>
                    /\ Terminal(State)
                    /\ ~Succeeded
                    /\ \A j \in Dispatches : j <= i
              /\ \A k \in 1..Len(lookups) :
                    lookups[k].b = "unknown" =>
                        /\ k = Len(lookups)
                        /\ UnknownOptionFailure
                        /\ hist[Len(hist)] = lookups[k]
              /\ Len(acts) <= Len(found)
              /\ \A k \in 1..Len(acts) :
                    acts[k].b = FirstRegistered(found[k].a[1]).id
              /\ rawArgs[RawPosition(i)] = hist[i].a
              /\ used = SubSeq(rawArgs, RawPosition(i) + 1,
                               RawPosition(i) + Len(used))
    /\ ( /\ parser = ClusterParser
         /\ rawArgs = << <<"-","a","b">>, xtok, ytok >>
         /\ Terminal(State) )
       => (Succeeded /\ values.A = xtok /\ values.B = ytok)

C20_Witness ==
    /\ parser = ClusterParser
    /\ rawArgs = << <<"-","a","v","b">>, xtok, ytok >>
    /\ Succeeded
    /\ values = [A |-> xtok, B |-> ytok, F |-> TRUE]

(***************************************************************************)
(* Optional arity                                                          *)
(***************************************************************************)
\* the token the top-level loop reads next is -c for one character c, and
\* the first descriptor registered under c is a Store of Optional arity
\* bound to a field of the record
AtOptionalStoreOption ==
    /\ pc = "scan" /\ ~EOF(args) /\ args.pushed = << >>
    /\ Len(Peek(args)) = 2 /\ Peek(args)[1] = "-" /\ Peek(args)[2] # "-"
    /\ FirstShort(parser.OptionalArguments, Peek(args)[2]) # 0
    /\ FirstRegistered(Peek(args)[2]).NArgs = Optional
    /\ FirstRegistered(Peek(args)[2]).Action.fn = "Store"
    /\ FirstRegistered(Peek(args)[2]).Dest \in DOMAIN parser.kinds

\* the tokens of rawArgs after the one the top-level loop reads next
Following == Drop(rawArgs, args.ptr + 1)

\* the step of C21 for the tokens fol that follow the option
OptionalStoreStep(d, fol) ==
    IF fol = << >> \/ LooksLikeOption(Head(fol))
    THEN /\ values' = values
         /\ args'.ptr = args.ptr + 1
         /\ posArgs' = posArgs
         /\ pc' = "scan"
    ELSE /\ values' = [values EXCEPT ![d.Dest] =
                          Coerced(Head(fol), parser.kinds[d.Dest]).val]
         /\ args'.ptr = args.ptr + 2
         /\ posArgs' = posArgs
         /\ Coerced(Head(fol), parser.kinds[d.Dest]).err = NilErr
               => pc' = "scan"

\* C21: an option of Optional arity and action Store followed by the end
\* of input or by a token that looks like an option leaves its destination
\* as it was, and the following token is left to the top-level loop;
\* followed by any other token, it coerces and stores that one token, which
\* is not added to the positional buffer.
C21_OptionalStore ==
    [][ AtOptionalStoreOption =>
          OptionalStoreStep(FirstRegistered(Peek(args)[2]), Following) ]_vars

\* C21 for the following tokens other than the empty string
C21_OptionalStoreNonEmpty ==
    [][ (AtOptionalStoreOption /\ (Following = << >> \/ Head(Following) # << >>))
          => OptionalStoreStep(FirstRegistered(Peek(args)[2]), Following) ]_vars

(***************************************************************************)
(* "Looks like an option" in the positional re-pass                        *)
(***************************************************************************)
ActionEvents == { i \in 1..Len(hist) : hist[i].ev = "action" }

\* C22: the "looks like an option" test is applied in the positional
\* re-pass as in the option pass: a token of length >= 2 beginning with
\* '-' is in the positional buffer only behind a "--"; there it ends the
\* run of a OneOrMore or ZeroOrMore positional and makes an Optional
\* positional consume nothing; in either pass only an exact arity, or
\* OneOrMore for its first token, consumes such a token.
C22_LooksLikeOptionInRePass ==
    LET disp == SelectSeq(hist, IsPositionalDispatch)
        acts == SelectSeq(hist, IsPositionalAction)
    IN  /\ \A j \in 1..Len(posArgs) :
              LooksLikeOption(posArgs[j]) =>
                  /\ j > Len(disp)
                  /\ \E i \in Dispatches : hist[i].b = "end"
        /\ \A k \in 1..Len(acts) :
              LET nArgs == parser.PositionalArguments[k].NArgs
                  rest  == Drop(posArgs, Len(StringsOf(SubSeq(acts, 1, k - 1))))
                  run   == acts[k].a
              IN  /\ run = Take(rest, Len(run))
                  /\ (nArgs = Optional /\ rest # << >>
                        /\ LooksLikeOption(Head(rest))) => run = << >>
                  /\ nArgs \in {ZeroOrMore, OneOrMore} =>
                        \A m \in 1..Len(run) :
                            LooksLikeOption(run[m]) =>
                                (nArgs = OneOrMore /\ m = 1)
        /\ \A i \in ActionEvents : \A m \in 1..Len(hist[i].a) :
              LooksLikeOption(hist[i].a[m]) =>
                  \/ DescriptorOf(hist[i].b).NArgs >= 0
                  \/ DescriptorOf(hist[i].b).NArgs = OneOrMore /\ m = 1

C22_Witness ==
    /\ parser = PairsParser
    /\ rawArgs = << DashDash, <<"-","n">>, xtok, ytok, <<"-","n">> >>
    /\ Succeeded
    /\ values.Pair = << <<"-","n">>, xtok >>
    /\ values.Rest = << ytok >>
    /\ posArgsList.ptr = 3

(***************************************************************************)
(* Termination                                                             *)
(***************************************************************************)
\* what is left to do: tokens of rawArgs to read, positional descriptors
\* to parse, loops to leave
Remaining ==
    (Len(rawArgs) - args.ptr)
        + (Len(parser.PositionalArguments) - posIdx)
        + (CASE pc = "scan" -> 2 [] pc = "positional" -> 1 [] OTHER -> 0)

\* an iteration of a variable-arity loop of readArgStrings on the cursor a
\* (the loop condition holds) reads a token, advancing the read position
\* or clearing the pushback slot
LoopIterationAdvances(a) ==
    ~StopsRun(Peek(a)) =>
        /\ argsList_Next(a).ok
        /\ \/ argsList_Next(a).a.ptr = a.ptr + 1
           \/ a.pushed # << >> /\ argsList_Next(a).a.pushed = << >>
        /\ Len(Stream(argsList_Next(a).a)) < Len(Stream(a))

\* the guard of one of the actions of Next holds
SomeGuardHolds ==
    \/ /\ pc = "scan" /\ ~EOF(args)
       /\ \/ IsEndOfOptions(Peek(args))
          \/ ~IsEndOfOptions(Peek(args)) /\ IsOptionToken(Peek(args))
                /\ Peek(args)[2] = "-"
          \/ ~IsEndOfOptions(Peek(args)) /\ IsOptionToken(Peek(args))
                /\ Peek(args)[2] # "-"
          \/ ~IsEndOfOptions(Peek(args)) /\ ~IsOptionToken(Peek(args))
    \/ pc = "scan" /\ EOF(args)
    \/ pc = "positional" /\ posIdx < Len(parser.PositionalArguments)
    \/ pc = "positional" /\ posIdx >= Len(parser.PositionalArguments)

\* C23: ParseArgs terminates: every iteration of the top-level loop
\* advances the read position or clears the pushback slot, and so does
\* every iteration of a variable-arity loop of readArgStrings; every step
\* decreases what is left to do, which is never negative, and a parse that
\* has not returned, exited or panicked can take a step.
C23_Terminates ==
    /\ [][ (pc = "scan" /\ pc' = "scan") =>
              \/ args'.ptr > args.ptr
              \/ args.pushed # << >> /\ args'.pushed = << >> ]_vars
    /\ [][ Remaining' < Remaining ]_vars
    /\ [](Remaining >= 0)
    /\ [](LoopIterationAdvances(args) /\ LoopIterationAdvances(posArgsList))
    /\ [](~Terminal(State) => SomeGuardHolds)

C23_Witness ==
    /\ parser = PairsParser
    /\ rawArgs = << xtok, ytok, xtok, ytok, xtok >>
    /\ Succeeded
    /\ values.Rest = << xtok, ytok, xtok >>
    /\ Remaining = 0

(***************************************************************************)
(* Failed coercions                                                        *)
(***************************************************************************)
\* C24: when Store with arity 1, or Optional with one token, is given a
\* token of invalid syntax for its bool or int destination, it returns
\* the conversion error and the destination holds the zero value of the
\* kind (false, 0): the value it held is lost.
C24_FailedStoreZeroes ==
    [][ ( /\ OneAction
          /\ DescriptorOf(TheAction.b).Action.fn = "Store"
          /\ DescriptorOf(TheAction.b).NArgs \in {1, Optional}
          /\ Len(TheAction.a) = 1
          /\ DescriptorOf(TheAction.b).Dest \in DOMAIN parser.kinds
          /\ parser.kinds[DescriptorOf(TheAction.b).Dest] \in {"bool", "int"}
          /\ Coerced(TheAction.a[1],
                     parser.kinds[DescriptorOf(TheAction.b).Dest]).err # NilErr )
        => LET d == DescriptorOf(TheAction.b)
           IN  /\ ReturnedError = NumError("strconv syntax")
               /\ values' = [values EXCEPT ![d.Dest] =
                                IF parser.kinds[d.Dest] = "bool" THEN FALSE ELSE 0]
               /\ Terminal(State') ]_vars

C24_Witness ==
    /\ parser = ScalarParser
    /\ rawArgs = << <<"-","p">>, xtok >>
    /\ values0 = [N |-> 7, B |-> TRUE]
    /\ pc = "returned" /\ err = NumError("strconv syntax")
    /\ values = [N |-> 7, B |-> FALSE]

\* the indices of the strings whose coercion to the kind fails
Rejected(strs, kind) ==
    { i \in 1..Len(strs) : Coerced(strs[i], kind).err # NilErr }

\* the coerced values of the first n strings
CoercedPrefix(strs, kind, n) == [i \in 1..n |-> Coerced(strs[i], kind).val]

\* C25: Append is not atomic: given k strings of which the j-th is the
\* first whose coercion fails, it returns that error with the destination
\* holding its prior contents followed by the first j-1 coerced values,
\* and the later strings are not processed; when every coercion succeeds
\* the destination is its prior contents followed by the k coerced values
\* in token order.
C25_AppendNotAtomic ==
    [][ ( /\ OneAction
          /\ DescriptorOf(TheAction.b).Action.fn = "Append"
          /\ DescriptorOf(TheAction.b).Dest \in DOMAIN parser.kinds
          /\ IsSlice(parser.kinds[DescriptorOf(TheAction.b).Dest]) )
        => LET d    == DescriptorOf(TheAction.b)
               strs == TheAction.a
               elem == ElemKind(parser.kinds[d.Dest])
               bad  == Rejected(strs, elem)
           IN  IF bad = {}
               THEN /\ ReturnedError = NilErr
                    /\ values' = [values EXCEPT ![d.Dest] =
                                     @ \o CoercedPrefix(strs, elem, Len(strs))]
               ELSE LET j == CHOOSE i \in bad : \A k \in bad : i <= k
                    IN  /\ ReturnedError = Coerced(strs[j], elem).err
                        /\ values' = [values EXCEPT ![d.Dest] =
                                         @ \o CoercedPrefix(strs, elem, j - 1)]
                        /\ Terminal(State') ]_vars

C25_Witness ==
    /\ parser = AppendParser
    /\ rawArgs = << one, two, xtok >>
    /\ values0.Nums = << 7 >>
    /\ pc = "returned" /\ err = NumError("strconv syntax")
    /\ values.Nums = << 7, 1, 2 >>

(***************************************************************************)
(* The two cursors of a parse                                              *)
(***************************************************************************)
\* the tokens the events say were read from the cursor over rawArgs by the
\* top-level loop and by the options, in order
RECURSIVE RawReads(_)
RawReads(h) ==
    IF h = << >> THEN << >>
    ELSE (CASE Head(h).ev = "dispatch" -> << Head(h).a >>
            [] Head(h).ev = "action" /\ Head(h).b \in OptionIds -> Head(h).a
            [] OTHER -> << >>)
         \o RawReads(Tail(h))

\* the same with the tokens the loop after "--" read
AllRawReads ==
    RawReads(hist)
        \o Drop(posArgs, Len(SelectSeq(hist, IsPositionalDispatch)))

\* the tokens the positional descriptors read from the positional buffer
PositionalReads == StringsOf(SelectSeq(hist, IsPositionalAction))

\* a call of Next panicked: the tokens read before it reached no Action
Exhausted ==
    hist # << >> /\ hist[Len(hist)] = Failure(NotEnoughArguments)

\* C26: for the cursor over rawArgs and the cursor over the positional
\* buffer, in every state of a parse: 0 <= ptr <= len(items); ptr never
\* decreases; the tokens Next returned are a prefix of the list, each
\* returned once and in list order; the list under a cursor is never
\* modified.
C26_CursorInvariant ==
    /\ [](/\ 0 <= args.ptr /\ args.ptr <= Len(args.items)
          /\ 0 <= posArgsList.ptr /\ posArgsList.ptr <= Len(posArgsList.items)
          /\ args.items = rawArgs
          /\ pc = "scan" => posArgsList = NewArgsList(<< >>)
          /\ Len(AllRawReads) <= args.ptr
          /\ AllRawReads = Take(rawArgs, Len(AllRawReads))
          /\ ~Exhausted => Len(AllRawReads) = args.ptr
          /\ Len(PositionalReads) <= posArgsList.ptr
          /\ PositionalReads = Take(posArgsList.items, Len(PositionalReads))
          /\ ~Exhausted => Len(PositionalReads) = posArgsList.ptr)
    /\ [][ /\ args'.ptr >= args.ptr
           /\ posArgsList'.ptr >= posArgsList.ptr
           /\ args'.items = args.items
           /\ pc # "scan" => posArgsList'.items = posArgsList.items ]_vars

C26_Witness ==
    /\ parser = PairsParser
    /\ rawArgs = << <<"-","n">>, xtok, xtok, ytok, ytok >>
    /\ Succeeded
    /\ args.ptr = 5
    /\ posArgsList.items = << xtok, ytok, ytok >>
    /\ posArgsList.ptr = 3

====
